---- MODULE Spec2Model ----
(***************************************************************************)
(* M48, the Z-probe repeatability test of MK4duo                           *)
(* (src/MK4duo/src/commands/gcode/calibrate/m48.h, gcode_M48).             *)
(*                                                                         *)
(* One run of gcode_M48 is modelled as a sequential process whose program  *)
(* counter pc walks through the routine.  Every blocking collaborator call *)
(* (probe read, move, stow, ...) is appended to the call log `calls`, and  *)
(* every line written to the serial channel to `serial`.                   *)
(*                                                                         *)
(* Numbers.  Lengths are integers: bed coordinates in millimetres, probe   *)
(* heights in tenths of a millimetre.  mean is kept as the exact fraction  *)
(* num/den the code computes (sum / (n + 1)), and sigma by its square, the *)
(* exact fraction under the SQRT of line 219.  Angles are integer degrees, *)
(* as random(0, 360) and random(25, 45) are integers.                      *)
(*                                                                         *)
(* Build.  HAS_LEVELING is taken as enabled (the bed-leveling calls of     *)
(* lines 104 and 267 are compiled in); MECH(DELTA) is the variable `delta`,*)
(* fixed at Init.  HAS_LCD only feeds the status bar and is left out.      *)
(***************************************************************************)
EXTENDS Integers, Sequences, FiniteSets

(* ------------------------------------------------------------------ *)
(* Bounds of the model                                                 *)
(* ------------------------------------------------------------------ *)

\* Probe heights a read can return are -ZSpread and ZSpread + 1 (tenths of mm).
ZSpread == 2

\* The largest leg count a valid request of the model carries (code: up to 15).
MaxLegsArg == 2

(* ------------------------------------------------------------------ *)
(* Machine configuration (Configuration files of the firmware)         *)
(* ------------------------------------------------------------------ *)

X_MIN_BED == 0

X_MAX_BED == 100

Y_MIN_BED == 0

Y_MAX_BED == 100

\* mechanics.data.probe_radius of a delta machine
probe_radius == 80

\* probe.data.offset[X_AXIS], probe.data.offset[Y_AXIS]
probe_offset == <<10, 0>>

(* ------------------------------------------------------------------ *)
(* Values                                                              *)
(* ------------------------------------------------------------------ *)

\* PROBE_PT_RAISE / PROBE_PT_STOW of ProbePtRaiseEnum
PROBE_PT_RAISE == "PROBE_PT_RAISE"

PROBE_PT_STOW == "PROBE_PT_STOW"

\* A probe read: a height, or the not-a-number failure indicator.
NaN == [ok |-> FALSE, z |-> 0]

Height(z) == [ok |-> TRUE, z |-> z]

isnan(r) == ~r.ok

SampleValues == {-ZSpread, ZSpread + 1}

ProbeOutcomes == {NaN} \cup {Height(z) : z \in SampleValues}

\* An option of the request: absent, or present with the byte parser.value_byte() returns.
NoArg == [seen |-> FALSE, val |-> 0]

Arg(v) == [seen |-> TRUE, val |-> v]

\* int8_t x = <uint8_t value>: the conversion of lines 55 and 64.
ToInt8(b) == IF b > 127 THEN b - 256 ELSE b

WITHIN(v, lo, hi) == v >= lo /\ v <= hi

MIN(a, b) == IF a < b THEN a ELSE b

\* Variant: only the upper limit is applied.
LIMITUpperOnly(v, lo, hi) == IF v > hi THEN hi ELSE v

\* LIMIT(v, lo, hi): constrain v to [lo, hi].
LIMIT(v, lo, hi) == IF v < lo THEN lo ELSE IF v > hi THEN hi ELSE v

(* ------------------------------------------------------------------ *)
(* Library functions and collaborators called by gcode_M48             *)
(* ------------------------------------------------------------------ *)

\* 1000 * sin(a degrees), 0 <= a <= 360, by Bhaskara's rational approximation
\* (the trigonometric library is not part of the routine).
Sin1000(a) ==
  LET h(x) == (4000 * x * (180 - x)) \div (40500 - x * (180 - x))
  IN  IF a <= 180 THEN h(a) ELSE -h(a - 180)

Cos1000(a) == Sin1000((a + 90) % 360)

\* Product of a length and a factor given in thousandths, rounded towards zero.
Scaled(len, f1000) ==
  LET p == len * f1000
  IN  IF p >= 0 THEN p \div 1000 ELSE -((-p) \div 1000)

\* mechanics.position_is_reachable_by_probe(x, y): inside the probe radius
\* of a delta machine, on the bed of a Cartesian one.
position_is_reachable_by_probe(isDelta, x, y) ==
  IF isDelta
    THEN x * x + y * y <= probe_radius * probe_radius
    ELSE WITHIN(x, X_MIN_BED, X_MAX_BED) /\ WITHIN(y, Y_MIN_BED, Y_MAX_BED)

\* Where the carriage rests when M48 is invoked (after G28).
HomePosition(isDelta) == IF isDelta THEN <<0, 0>> ELSE <<40, 50>>

(* ------------------------------------------------------------------ *)
(* Requests                                                            *)
(* ------------------------------------------------------------------ *)

\* V: absent, the valid extremes, just above the range, a byte that is negative as int8_t.
VArgs == {NoArg, Arg(0), Arg(4), Arg(5), Arg(200)}

\* P: absent (10 samples), just below, the lower limit, just above, negative as int8_t.
PArgs == {NoArg, Arg(3), Arg(4), Arg(51), Arg(200)}

\* L: absent, none, the coerced value 1, larger valid values, just above the range.
LArgs == {NoArg, Arg(0), Arg(1), Arg(16)} \cup {Arg(k) : k \in 2..MaxLegsArg}

\* X and Y: both absent, a reachable target, an unreachable one.
XYArgs == {<<NoArg, NoArg>>, <<Arg(5), Arg(75)>>, <<Arg(500), Arg(30)>>}

Requests ==
  [V : VArgs, P : PArgs, L : LArgs, S : BOOLEAN, E : BOOLEAN, XY : XYArgs]

(* ------------------------------------------------------------------ *)
(* Constants of the routine                                            *)
(* ------------------------------------------------------------------ *)

\* V default (line 55), P default (line 64), legs of the star pattern (line 92)
DefaultVerbose == 1

DefaultSamples == 10

SchizoidLegs == 7

\* min = 99999.9, max = -99999.9 (line 109), in tenths of a millimetre
Sentinel == 999999

\* Serial lines
MsgBanner == "M48 Z-Probe Repeatability Test"

ErrVerbose == "?Verbose Level not plausible (0-4)."

ErrSamples == "?Sample size not plausible (4-50)."

ErrBounds == "? (X,Y) out of bounds."

ErrLegs == "?Number of legs in movement not plausible (0-15)."

MsgPositioning == "Positioning the probe..."

MsgStarting == "Starting radius: angle: dir:"

MsgPulling == "Pulling point towards center:"

MsgGoingTo == "Going to: X Y Z"

MsgSample == "n of N: z:"

MsgSampleStats == "n of N: z: mean: sigma: min: max: range:"

MsgFinished == "Finished!"

MsgSummary == "Mean: Min: Max: Range:"

MsgDeviation == "Standard Deviation:"

ErrorLines == {ErrVerbose, ErrSamples, ErrBounds, ErrLegs}

\* Collaborator calls
CallDisableLeveling == "bedlevel.set_bed_leveling_enabled(false)"

CallSetup == "mechanics.setup_for_endstop_or_probe_move"

CallProbe == "probe.check_pt"

CallMove == "mechanics.do_blocking_move_to_xy"

CallStow == "STOW_PROBE"

CallCleanUp == "mechanics.clean_up_after_endstop_or_probe_move"

CallRestoreLeveling == "bedlevel.restore_bed_leveling_state"

CallReport == "mechanics.report_current_position"

(* ------------------------------------------------------------------ *)
(* State                                                               *)
(* ------------------------------------------------------------------ *)

VARIABLES
  request,            \* the options of the M48 line (parser)
  delta,              \* MECH(DELTA)
  homed,              \* ~mechanics.axis_unhomed_error()
  leveling_active,    \* bedlevel: compensation enabled
  leveling_previous,  \* bedlevel: the state saved for restore_bed_leveling_state
  leveling_on_entry,  \* history: leveling_active when gcode_M48 was entered
  current_position,   \* mechanics.current_position[X_AXIS], [Y_AXIS]
  pc,                 \* position in gcode_M48
  verbose_level, n_samples, raise_after, probe_location, n_legs, schizoid_flag,
  t, probing_good, n, l, dir, angle, radius, X_current, Y_current,
  angle_unwrapped,    \* history: angle after line 157, before the loops of 159-162
  sample_set, mean, sigma_sq, min, max,
  probe_args,         \* arguments of the check_pt call last issued
  serial,             \* lines written to the serial channel
  calls               \* collaborator calls issued, in order

config == <<request, delta, homed, leveling_on_entry>>

bedlevel == <<leveling_active, leveling_previous>>

params == <<verbose_level, n_samples, raise_after, probe_location, n_legs, schizoid_flag>>

pattern == <<dir, angle, radius, angle_unwrapped>>

waypoint == <<X_current, Y_current>>

stats == <<mean, sigma_sq, min, max>>

vars == <<config, bedlevel, current_position, pc, params, t, probing_good, n, l,
          pattern, waypoint, sample_set, stats, probe_args, serial, calls>>

NoProbe == [x |-> 0, y |-> 0, raise |-> PROBE_PT_RAISE, verbose |-> 0]

Zero == [num |-> 0, den |-> 1]

\* Default-count requests (10 samples) are explored for the plain command line;
\* every other sample count is combined with every other option.
InitialRequests ==
  {r \in Requests :
     ~r.P.seen => (r.L = NoArg /\ ~r.S /\ ~r.E /\ r.XY = <<NoArg, NoArg>>)}

Init ==
  /\ request \in InitialRequests
  /\ delta \in BOOLEAN
  /\ homed \in BOOLEAN
  /\ leveling_active \in BOOLEAN
  /\ leveling_previous = FALSE
  /\ leveling_on_entry = leveling_active
  /\ current_position = HomePosition(delta)
  /\ pc = "start"
  /\ verbose_level = 0 /\ n_samples = 0 /\ raise_after = PROBE_PT_RAISE
  /\ probe_location = <<0, 0>> /\ n_legs = 0 /\ schizoid_flag = FALSE
  /\ t = NaN /\ probing_good = FALSE /\ n = 0 /\ l = 0
  /\ dir = 0 /\ angle = 0 /\ radius = 0 /\ angle_unwrapped = 0
  /\ X_current = 0 /\ Y_current = 0
  /\ sample_set = <<>>
  /\ mean = Zero /\ sigma_sq = Zero /\ min = 0 /\ max = 0
  /\ probe_args = NoProbe
  /\ serial = <<>>
  /\ calls = <<>>

(* ------------------------------------------------------------------ *)
(* gcode_M48, lines 53-92: the homing check and the validation gates   *)
(* ------------------------------------------------------------------ *)

\* Variant: the result of the homing check is not used.
AfterHomingCheckIgnored(isHomed) == "validate"

\* line 53: where the routine goes after mechanics.axis_unhomed_error().
AfterHomingCheck(isHomed) == IF isHomed THEN "validate" ELSE "done"

\* line 53: if (mechanics.axis_unhomed_error()) return;
CheckHomed ==
  /\ pc = "start"
  /\ pc' = AfterHomingCheck(homed)
  /\ UNCHANGED <<config, bedlevel, current_position, params, t, probing_good, n, l,
                 pattern, waypoint, sample_set, stats, probe_args, serial, calls>>

\* parser.linearval(axis, dflt)
linearval(arg, dflt) == IF arg.seen THEN arg.val ELSE dflt

\* Variant: the schizoid flag sets seven legs whether or not L was given.
EffectiveLegsSchizoidWins(argL, argS) ==
  LET legs0 == IF argL.seen THEN argL.val ELSE 0
      legs1 == IF legs0 = 1 THEN 2 ELSE legs0
  IN  IF argS THEN SchizoidLegs ELSE legs1

\* lines 83-92: the leg count the sample loop uses, from L and S.
\* Defined on the L values that pass the gate of line 85.
EffectiveLegs(argL, argS) ==
  LET seen_L == argL.seen
      legs0  == IF seen_L THEN argL.val ELSE 0
      legs1  == IF legs0 = 1 THEN 2 ELSE legs0
  IN  IF argS /\ ~seen_L THEN SchizoidLegs ELSE legs1

\* The conditions of the gates of lines 56, 65 and 85.
VerbosePlausible(v) == WITHIN(v, 0, 4)

\* Variant: the upper limit of the sample count off by one.
SamplesPlausibleUpTo51(p) == WITHIN(p, 4, 51)

SamplesPlausible(p) == WITHIN(p, 4, 50)

\* Variant: the upper limit of the leg count off by one.
LegsPlausibleUpTo16(legs) == ~(legs > 16)

LegsPlausible(legs) == ~(legs > 15)

\* lines 55-92.  The locals as they stand when the routine leaves the gates,
\* `ok` telling whether it went on to line 99, and `out` the serial lines written.
\* A local the routine returned before declaring keeps its Init value.
Validation(req, isDelta, pos) ==
  LET v      == IF req.V.seen THEN ToInt8(req.V.val) ELSE DefaultVerbose
      banner == IF v > 0 THEN <<MsgBanner>> ELSE <<>>
      p      == IF req.P.seen THEN ToInt8(req.P.val) ELSE DefaultSamples
      raise  == IF req.E THEN PROBE_PT_STOW ELSE PROBE_PT_RAISE
      xp     == linearval(req.XY[1], pos[1] + probe_offset[1])
      yp     == linearval(req.XY[2], pos[2] + probe_offset[2])
      legs   == IF req.L.seen THEN req.L.val ELSE 0
      none   == [ok |-> FALSE, verbose_level |-> 0, n_samples |-> 0,
                 raise_after |-> PROBE_PT_RAISE, X_current |-> 0, Y_current |-> 0,
                 probe_location |-> <<0, 0>>, n_legs |-> 0, schizoid_flag |-> FALSE,
                 out |-> <<>>]
      g1     == [none EXCEPT !.verbose_level = v]
      g2     == [g1 EXCEPT !.n_samples = p, !.out = banner]
      g3     == [g2 EXCEPT !.raise_after = raise, !.X_current = pos[1],
                           !.Y_current = pos[2], !.probe_location = <<xp, yp>>]
      g4     == [g3 EXCEPT !.n_legs = legs]
  IN  IF ~VerbosePlausible(v)
        THEN [g1 EXCEPT !.out = <<ErrVerbose>>]
      ELSE IF ~SamplesPlausible(p)
        THEN [g2 EXCEPT !.out = banner \o <<ErrSamples>>]
      ELSE IF ~position_is_reachable_by_probe(isDelta, xp, yp)
        THEN [g3 EXCEPT !.out = banner \o <<ErrBounds>>]
      ELSE IF ~LegsPlausible(legs)
        THEN [g4 EXCEPT !.out = banner \o <<ErrLegs>>]
      ELSE [g4 EXCEPT !.ok = TRUE, !.n_legs = EffectiveLegs(req.L, req.S),
                      !.schizoid_flag = req.S]

Validate ==
  /\ pc = "validate"
  /\ LET r == Validation(request, delta, current_position)
     IN  /\ verbose_level' = r.verbose_level
         /\ n_samples' = r.n_samples
         /\ raise_after' = r.raise_after
         /\ X_current' = r.X_current
         /\ Y_current' = r.Y_current
         /\ probe_location' = r.probe_location
         /\ n_legs' = r.n_legs
         /\ schizoid_flag' = r.schizoid_flag
         /\ serial' = serial \o r.out
         /\ pc' = IF r.ok THEN "position" ELSE "done"
  /\ UNCHANGED <<config, bedlevel, current_position, t, probing_good, n, l,
                 pattern, sample_set, stats, probe_args, calls>>

(* ------------------------------------------------------------------ *)
(* Collaborators with state                                            *)
(* ------------------------------------------------------------------ *)

\* bedlevel.set_bed_leveling_enabled(enable): the state in force is saved, then changed.
set_bed_leveling_enabled(lev, enable) ==
  [active |-> enable, previous |-> lev.active]

\* bedlevel.restore_bed_leveling_state(): back to the saved state.
restore_bed_leveling_state(lev) ==
  [active |-> lev.previous, previous |-> lev.previous]

\* Where probe.check_pt(x, y, ...) leaves the carriage: the probe over (x, y).
AfterProbe(x, y) == <<x - probe_offset[1], y - probe_offset[2]>>

(* ------------------------------------------------------------------ *)
(* gcode_M48, lines 99-113: positioning and the deployment probe       *)
(* ------------------------------------------------------------------ *)

\* lines 102-105: the bed-leveling state after the run disabled the correction.
LevelingForRun(lev) == set_bed_leveling_enabled(lev, FALSE)

\* Variant: the deployment probe always asks for the highest verbose level.
FirstProbeArgsMaxDetail(loc, raise, verbose) ==
  [x |-> loc[1], y |-> loc[2], raise |-> raise, verbose |-> 4]

\* The arguments of the check_pt call of line 112.
FirstProbeArgs(loc, raise, verbose) ==
  [x |-> loc[1], y |-> loc[2], raise |-> raise, verbose |-> verbose]

\* Variant: the in-loop read raises the probe whatever E says.
SampleProbeArgsRaiseOnly(loc, raise) ==
  [x |-> loc[1], y |-> loc[2], raise |-> PROBE_PT_RAISE, verbose |-> 0]

\* The arguments of the check_pt call of line 195.
SampleProbeArgs(loc, raise) ==
  [x |-> loc[1], y |-> loc[2], raise |-> raise, verbose |-> 0]

\* Variant: the loop test of line 119 written n <= n_samples.
LoopTargetOneMore(taken, total, legs) ==
  IF taken <= total
    THEN (IF legs # 0 THEN "pattern" ELSE "probe")
    ELSE "finalize"

\* Where the for loop of line 119 goes with n samples taken: the next iteration
\* (movement first when there are legs) or the end of the loop.
LoopTarget(taken, total, legs) ==
  IF taken < total
    THEN (IF legs # 0 THEN "pattern" ELSE "probe")
    ELSE "finalize"

Position ==
  /\ pc = "position"
  /\ serial' = IF verbose_level > 2 THEN Append(serial, MsgPositioning) ELSE serial
  /\ LET lev == LevelingForRun(
                  [active |-> leveling_active, previous |-> leveling_previous])
     IN  leveling_active' = lev.active /\ leveling_previous' = lev.previous
  /\ calls' = calls \o <<CallDisableLeveling, CallSetup, CallProbe>>
  /\ mean' = Zero /\ sigma_sq' = Zero /\ min' = Sentinel /\ max' = -Sentinel
  /\ probe_args' = FirstProbeArgs(probe_location, raise_after, verbose_level)
  /\ current_position' = AfterProbe(probe_location[1], probe_location[2])
  /\ \E r \in ProbeOutcomes :
       /\ t' = r
       /\ probing_good' = ~isnan(r)
       /\ pc' = IF ~isnan(r) THEN LoopTarget(0, n_samples, n_legs) ELSE "finalize"
  /\ n' = 0
  /\ UNCHANGED <<config, params, l, pattern, waypoint, sample_set>>

(* ------------------------------------------------------------------ *)
(* gcode_M48, lines 124-192: the movement pattern before a sample      *)
(* ------------------------------------------------------------------ *)

\* random(0, 10) of line 125
DirDraws == 0..9

\* random(0, 360) of line 126: the lower end and a vertex of the star
AngleDraws == {0, 216}

\* random(lo, hi) of lines 127-134 draws from lo..hi-1; the two ends are explored.
RadiusDraws(isDelta) ==
  LET lo == IF isDelta THEN probe_radius \div 8 ELSE 5
      hi == IF isDelta THEN (probe_radius * 3333) \div 10000
                       ELSE MIN(X_MAX_BED, Y_MAX_BED) \div 8
  IN  {lo, hi - 1}

\* random(25, 45) of line 155: the two ends
StepDraws == {25, 44}

\* lines 159-162: the two while loops that bring the angle back
RECURSIVE WrapDown(_)
WrapDown(a) == IF a > 360 THEN WrapDown(a - 360) ELSE a

RECURSIVE WrapUp(_)
WrapUp(a) == IF a < 0 THEN WrapUp(a + 360) ELSE a

\* Variant: only the loop of lines 159-160 is applied.
WrapAngleDownOnly(a) == WrapDown(a)

WrapAngle(a) == WrapUp(WrapDown(a))

\* Variant: the factor leaves the coordinate as it is.
Scale08Keeps(x) == x

\* Variant: the factor is 1.2, away from the centre.
Scale08Away(x) == IF x >= 0 THEN (x * 6) \div 5 ELSE -(((-x) * 6) \div 5)

\* lines 171-172: X_current *= 0.8
Scale08(x) == IF x >= 0 THEN (x * 4) \div 5 ELSE -(((-x) * 4) \div 5)

\* Variant: the leg loop written l < n_legs.
LegLoopContinuesToLegs(done, legs) == done < legs

\* line 144: for (l = 0; l < n_legs - 1; l++), the test with `done` legs moved.
LegLoopContinues(done, legs) == done < legs - 1

\* lines 124-142: a new iteration with legs draws direction, angle and radius.
DrawPattern ==
  /\ pc = "pattern"
  /\ \E r \in DirDraws : dir' = IF r > 5 THEN -1 ELSE 1
  /\ angle' \in AngleDraws
  /\ radius' \in RadiusDraws(delta)
  /\ angle_unwrapped' = angle'
  /\ serial' = IF verbose_level > 3 THEN Append(serial, MsgStarting) ELSE serial
  /\ l' = 0
  /\ pc' = IF LegLoopContinues(0, n_legs) THEN "leg" ELSE "probe"
  /\ UNCHANGED <<config, bedlevel, current_position, params, t, probing_good, n,
                 waypoint, sample_set, stats, probe_args, calls>>

\* lines 144-165 and, on a Cartesian machine, 179-180: the next angle and the
\* waypoint on the circle around the target.
LegCandidate ==
  /\ pc = "leg"
  /\ \E step \in StepDraws :
       LET delta_angle == IF schizoid_flag THEN dir * 2 * 72 ELSE dir * step
           a == WrapAngle(angle + delta_angle)
           x == probe_location[1] - probe_offset[1] + Scaled(radius, Cos1000(a))
           y == probe_location[2] - probe_offset[2] + Scaled(radius, Sin1000(a))
       IN  /\ angle_unwrapped' = angle + delta_angle
           /\ angle' = a
           /\ IF delta
                THEN /\ X_current' = x
                     /\ Y_current' = y
                     /\ pc' = IF position_is_reachable_by_probe(delta, x, y)
                                THEN "move" ELSE "correct"
                ELSE /\ X_current' = LIMIT(x, X_MIN_BED, X_MAX_BED)
                     /\ Y_current' = LIMIT(y, Y_MIN_BED, Y_MAX_BED)
                     /\ pc' = "move"
  /\ UNCHANGED <<config, bedlevel, current_position, params, t, probing_good, n, l,
                 dir, radius, sample_set, stats, probe_args, serial, calls>>

\* lines 170-177 (delta): one turn of the loop that pulls the waypoint to the centre.
PullTowardsCenter ==
  /\ pc = "correct"
  /\ X_current' = Scale08(X_current)
  /\ Y_current' = Scale08(Y_current)
  /\ serial' = IF verbose_level > 3 THEN Append(serial, MsgPulling) ELSE serial
  /\ pc' = IF position_is_reachable_by_probe(delta, X_current', Y_current')
             THEN "move" ELSE "correct"
  /\ UNCHANGED <<config, bedlevel, current_position, params, t, probing_good, n, l,
                 pattern, sample_set, stats, probe_args, calls>>

\* lines 183-191: the blocking move to the waypoint, and the step of the leg loop.
\* X_current and Y_current are not read again before lines 164-165 assign them
\* anew; they are cleared here so that states differing in a dead value coincide.
MoveLeg ==
  /\ pc = "move"
  /\ serial' = IF verbose_level > 3 THEN Append(serial, MsgGoingTo) ELSE serial
  /\ calls' = Append(calls, CallMove)
  /\ current_position' = <<X_current, Y_current>>
  /\ X_current' = 0 /\ Y_current' = 0
  /\ l' = l + 1
  /\ IF LegLoopContinues(l + 1, n_legs)
       THEN pc' = "leg" /\ UNCHANGED pattern
       ELSE pc' = "probe" /\ dir' = 0 /\ angle' = 0 /\ radius' = 0
                         /\ angle_unwrapped' = 0
  /\ UNCHANGED <<config, bedlevel, params, t, probing_good, n,
                 sample_set, stats, probe_args>>

(* ------------------------------------------------------------------ *)
(* gcode_M48, lines 195-234: one sample and the running statistics     *)
(* ------------------------------------------------------------------ *)

\* sample_set[j] of the code (0-based)
At(a, j) == a[j + 1].z

\* lines 204-205: for (j = 0; j <= n; j++) sum += sample_set[j];
RECURSIVE SumLoop(_, _, _, _)
SumLoop(a, j, last, sum) ==
  IF j <= last THEN SumLoop(a, j + 1, last, sum + At(a, j)) ELSE sum

\* lines 215-217: for (j = 0; j <= n; j++) sum += sq(sample_set[j] - mean);
\* with mean = m.num / m.den the sum is the returned integer over m.den^2.
RECURSIVE SqLoop(_, _, _, _, _)
SqLoop(a, j, last, m, sum) ==
  IF j <= last
    THEN SqLoop(a, j + 1, last, m,
                sum + (At(a, j) * m.den - m.num) * (At(a, j) * m.den - m.num))
    ELSE sum

\* NOMORE(v, limit): if (v > limit) v = limit;   NOLESS(v, limit): if (v < limit) v = limit;
NOMORE(v, limit) == IF v > limit THEN limit ELSE v

NOLESS(v, limit) == IF v < limit THEN limit ELSE v

\* Variant: the loop of line 205 written j < n, leaving out the newest sample.
AccumulateShortSum(a, k, st) ==
  LET m == [num |-> SumLoop(a, 0, k - 1, 0), den |-> k + 1]
  IN  [mean     |-> m,
       min      |-> NOMORE(st.min, At(a, k)),
       max      |-> NOLESS(st.max, At(a, k)),
       sigma_sq |-> [num |-> SqLoop(a, 0, k, m, 0), den |-> m.den * m.den * (k + 1)]]

\* Variant: line 219 divides by n, the divisor of the sample deviation.
AccumulateDivisorN(a, k, st) ==
  LET m == [num |-> SumLoop(a, 0, k, 0), den |-> k + 1]
  IN  [mean     |-> m,
       min      |-> NOMORE(st.min, At(a, k)),
       max      |-> NOLESS(st.max, At(a, k)),
       sigma_sq |-> [num |-> SqLoop(a, 0, k, m, 0), den |-> m.den * m.den * k]]

\* lines 204-219: the statistics after sample_set[k] was stored.
Accumulate(a, k, st) ==
  LET m == [num |-> SumLoop(a, 0, k, 0), den |-> k + 1]
  IN  [mean     |-> m,
       min      |-> NOMORE(st.min, At(a, k)),
       max      |-> NOLESS(st.max, At(a, k)),
       sigma_sq |-> [num |-> SqLoop(a, 0, k, m, 0), den |-> m.den * m.den * (k + 1)]]

\* Variant: the statistics are updated without looking at the read's outcome.
AfterReadUnguarded(r, a, k, st) == Accumulate(a, k, st)

\* lines 198-219: the statistics after the read of iteration k returned r;
\* the break of line 199 leaves them as they are.
AfterRead(r, a, k, st) == IF isnan(r) THEN st ELSE Accumulate(a, k, st)

\* lines 220-234: the progress line of a sample
ProgressLines(verbose) ==
  IF verbose > 1
    THEN (IF verbose > 2 THEN <<MsgSampleStats>> ELSE <<MsgSample>>)
    ELSE <<>>

\* lines 195-236: the probe read of iteration n, the break on failure, the
\* statistics and the step of the sample loop.
ProbeSample ==
  /\ pc = "probe"
  /\ calls' = Append(calls, CallProbe)
  /\ probe_args' = SampleProbeArgs(probe_location, raise_after)
  /\ current_position' = AfterProbe(probe_location[1], probe_location[2])
  /\ \E r \in ProbeOutcomes :
       /\ sample_set' = Append(sample_set, r)
       /\ probing_good' = ~isnan(r)
       /\ LET st == AfterRead(r, sample_set', n,
                               [mean |-> mean, sigma_sq |-> sigma_sq,
                                min |-> min, max |-> max])
          IN  /\ mean' = st.mean
              /\ min' = st.min
              /\ max' = st.max
              /\ sigma_sq' = st.sigma_sq
       /\ IF isnan(r)
            THEN /\ pc' = "finalize"
                 /\ UNCHANGED <<n, serial>>
            ELSE /\ serial' = serial \o ProgressLines(verbose_level)
                 /\ n' = n + 1
                 /\ pc' = LoopTarget(n + 1, n_samples, n_legs)
  /\ UNCHANGED <<config, bedlevel, params, t, l, pattern, waypoint>>

(* ------------------------------------------------------------------ *)
(* gcode_M48, lines 239-270: stow, summary, cleanup                    *)
(* ------------------------------------------------------------------ *)

\* Variant: the final block is written whether or not probing was good.
FinalBlockUnconditional(good, verbose) ==
  <<MsgFinished>> \o (IF verbose > 0 THEN <<MsgSummary>> ELSE <<>>) \o <<MsgDeviation>>

\* Variant: the summary line is written from verbose level 2 on.
FinalBlockSummaryFrom2(good, verbose) ==
  IF good
    THEN <<MsgFinished>>
         \o (IF verbose > 1 THEN <<MsgSummary>> ELSE <<>>)
         \o <<MsgDeviation>>
    ELSE <<>>

\* lines 241-261: the final block
FinalBlock(good, verbose) ==
  IF good
    THEN <<MsgFinished>>
         \o (IF verbose > 0 THEN <<MsgSummary>> ELSE <<>>)
         \o <<MsgDeviation>>
    ELSE <<>>

\* Variant: the run switches the correction back on whatever it was before.
LevelingAfterRunEnabled(lev) == set_bed_leveling_enabled(lev, TRUE)

\* lines 265-268: the bed-leveling state after the run restored it.
LevelingAfterRun(lev) == restore_bed_leveling_state(lev)

\* Variant: the position is reported before the leveling state is restored.
FinalCallsReportEarly == <<CallStow, CallCleanUp, CallReport, CallRestoreLeveling>>

\* lines 239, 263-270: the collaborator calls that end the run
FinalCalls == <<CallStow, CallCleanUp, CallRestoreLeveling, CallReport>>

Finalize ==
  /\ pc = "finalize"
  /\ calls' = calls \o FinalCalls
  /\ serial' = serial \o FinalBlock(probing_good, verbose_level)
  /\ LET lev == LevelingAfterRun(
                  [active |-> leveling_active, previous |-> leveling_previous])
     IN  leveling_active' = lev.active /\ leveling_previous' = lev.previous
  /\ pc' = "done"
  /\ UNCHANGED <<config, current_position, params, t, probing_good, n, l,
                 pattern, waypoint, sample_set, stats, probe_args>>

(* ------------------------------------------------------------------ *)
(* The run                                                             *)
(* ------------------------------------------------------------------ *)

Next ==
  \/ CheckHomed
  \/ Validate
  \/ Position
  \/ DrawPattern
  \/ LegCandidate
  \/ PullTowardsCenter
  \/ MoveLeg
  \/ ProbeSample
  \/ Finalize

Spec == Init /\ [][Next]_vars

(* ------------------------------------------------------------------ *)
(* Vocabulary of the properties                                        *)
(* ------------------------------------------------------------------ *)

\* How often x occurs in a log, and where.
Count(log, x) == Cardinality({i \in DOMAIN log : log[i] = x})

Places(log, x) == {i \in DOMAIN log : log[i] = x}

\* The request as written, before any conversion: which constraints it violates.
VerboseOutside == request.V.seen /\ request.V.val \notin 0..4

SamplesOutside == request.P.seen /\ request.P.val \notin 4..50

RequestedTarget ==
  <<IF request.XY[1].seen THEN request.XY[1].val
                          ELSE HomePosition(delta)[1] + probe_offset[1],
    IF request.XY[2].seen THEN request.XY[2].val
                          ELSE HomePosition(delta)[2] + probe_offset[2]>>

TargetUnreachable ==
  ~position_is_reachable_by_probe(delta, RequestedTarget[1], RequestedTarget[2])

LegsOutside == request.L.seen /\ request.L.val \notin 0..15

InvalidRequest == VerboseOutside \/ SamplesOutside \/ TargetUnreachable \/ LegsOutside

\* The run got past the homing check and every gate.
Validated == homed /\ ~InvalidRequest /\ pc \notin {"start", "validate"}

RequestedSamples == IF request.P.seen THEN request.P.val ELSE 10

RequestedVerbose == IF request.V.seen THEN request.V.val ELSE 1

ErrorsReported == SelectSeq(serial, LAMBDA line : line \in ErrorLines)

MechanicalCalls == {CallMove, CallProbe, CallStow, CallDisableLeveling, CallSetup,
                    CallCleanUp, CallRestoreLeveling, CallReport}

\* Every probe read of the run so far, the deployment probe first.
ReadsSoFar == IF Count(calls, CallProbe) = 0 THEN <<>> ELSE <<t>> \o sample_set

AllReadsGood ==
  /\ Len(ReadsSoFar) = 1 + RequestedSamples
  /\ \A i \in DOMAIN ReadsSoFar : ~isnan(ReadsSoFar[i])

SomeReadFailed == \E i \in DOMAIN ReadsSoFar : isnan(ReadsSoFar[i])

(* ------------------------------------------------------------------ *)
(* C1                                                                  *)
(* ------------------------------------------------------------------ *)

\* The error line that belongs to a violated constraint.
Corresponds(line) ==
  \/ line = ErrVerbose /\ VerboseOutside
  \/ line = ErrSamples /\ SamplesOutside
  \/ line = ErrBounds /\ TargetUnreachable
  \/ line = ErrLegs /\ LegsOutside

\* C1: a request with verbose outside [0,4], sample count outside [4,50], an
\* unreachable target or legs outside [0,15] never causes a collaborator call
\* (no move, probe read, stow, leveling change, probe-move setup or cleanup,
\* position report) and leaves the bed-leveling flag as it was; the run that
\* reached the gates (homed axes, the routine's stated precondition) has ended
\* with an error line reported, and every error line reported belongs to a
\* constraint the request violates.
C1_InvalidRequestNoSideEffect ==
  InvalidRequest =>
    /\ \A i \in DOMAIN calls : calls[i] \notin MechanicalCalls
    /\ calls = <<>>
    /\ leveling_active = leveling_on_entry
    /\ current_position = HomePosition(delta)
    /\ pc \in {"start", "validate", "done"}
    /\ (pc = "done" /\ homed) =>
         /\ ErrorsReported # <<>>
         /\ \A i \in DOMAIN ErrorsReported : Corresponds(ErrorsReported[i])

\* C1 witness: a run rejected at the last gate (legs), after the three before passed.
C1_Witness ==
  /\ pc = "done" /\ homed
  /\ LegsOutside /\ ~VerboseOutside /\ ~SamplesOutside /\ ~TargetUnreachable
  /\ ErrorsReported = <<ErrLegs>>
  /\ calls = <<>>

(* ------------------------------------------------------------------ *)
(* C2                                                                  *)
(* ------------------------------------------------------------------ *)

\* The single place of a call that occurs exactly once.
PlaceOf(x) == CHOOSE i \in Places(calls, x) : TRUE

\* C2: a validated run that has ended issued probe stow, compensation restore
\* and position report exactly once each, stow before restore before report,
\* all after the last probe read and the last move; before the end none of
\* the three has been issued.
C2_CleanupOnceInOrder ==
  Validated =>
    IF pc = "done"
      THEN /\ Count(calls, CallStow) = 1
           /\ Count(calls, CallRestoreLeveling) = 1
           /\ Count(calls, CallReport) = 1
           /\ PlaceOf(CallStow) < PlaceOf(CallRestoreLeveling)
           /\ PlaceOf(CallRestoreLeveling) < PlaceOf(CallReport)
           /\ \A i \in Places(calls, CallProbe) \cup Places(calls, CallMove) :
                i < PlaceOf(CallStow)
      ELSE /\ Count(calls, CallStow) = 0
           /\ Count(calls, CallRestoreLeveling) = 0
           /\ Count(calls, CallReport) = 0

\* C2 witness: a run ended by a failed in-loop read that was preceded by moves.
C2_Witness ==
  /\ pc = "done" /\ Validated
  /\ ~isnan(t)
  /\ Len(sample_set) >= 2 /\ isnan(sample_set[Len(sample_set)])
  /\ Count(calls, CallMove) > 0
  /\ Count(calls, CallStow) = 1

(* ------------------------------------------------------------------ *)
(* C3                                                                  *)
(* ------------------------------------------------------------------ *)

LastProbePlace == CHOOSE i \in Places(calls, CallProbe) :
                    \A j \in Places(calls, CallProbe) : j <= i

\* C4: a failed deployment probe is followed by no in-loop read and no move;
\* a failed in-loop read i is the last read (1 + i reads in all) and no move is
\* issued after it; a run that ended without a failed read issued exactly
\* 1 + sample-count reads.
C4_FailureStopsSampling ==
  /\ Count(calls, CallProbe) = Len(ReadsSoFar)
  /\ (Count(calls, CallProbe) >= 1 /\ isnan(t)) =>
       /\ Count(calls, CallProbe) = 1
       /\ Count(calls, CallMove) = 0
       /\ sample_set = <<>>
       /\ pc \in {"finalize", "done"}
  /\ \A i \in DOMAIN sample_set :
       isnan(sample_set[i]) =>
         /\ i = Len(sample_set)
         /\ i <= RequestedSamples
         /\ Count(calls, CallProbe) = 1 + i
         /\ \A m \in Places(calls, CallMove) : m < LastProbePlace
         /\ pc \in {"finalize", "done"}
  /\ (Validated /\ pc = "done" /\ ~SomeReadFailed) =>
       Count(calls, CallProbe) = 1 + RequestedSamples

\* C4 witness: the third in-loop read failed after moves, and the run has ended.
C4_Witness ==
  /\ pc = "done"
  /\ Len(sample_set) = 3 /\ isnan(sample_set[3])
  /\ Count(calls, CallProbe) = 4
  /\ Count(calls, CallMove) >= 3

(* ------------------------------------------------------------------ *)
(* C5                                                                  *)
(* ------------------------------------------------------------------ *)

Written(line) == \E i \in DOMAIN serial : serial[i] = line

\* C5: "Finished!" is on the channel only when the deployment probe and all
\* sample-count reads succeeded, it is there once a run with all reads good
\* has ended, and after a failed read none of the lines of the final block is
\* ever written.
C5_SummaryIffAllReadsGood ==
  /\ Written(MsgFinished) => (AllReadsGood /\ pc = "done")
  /\ (Validated /\ pc = "done" /\ AllReadsGood) => Count(serial, MsgFinished) = 1
  /\ SomeReadFailed =>
       ~Written(MsgFinished) /\ ~Written(MsgSummary) /\ ~Written(MsgDeviation)

\* C5 witness: a run of the default ten samples ended with the final block.
C5_Witness ==
  /\ pc = "done" /\ AllReadsGood
  /\ RequestedSamples = 10
  /\ Written(MsgFinished)

(* ------------------------------------------------------------------ *)
(* C6                                                                  *)
(* ------------------------------------------------------------------ *)

\* The lines from "Finished!" on.
FinalBlockWritten ==
  IF Written(MsgFinished)
    THEN SubSeq(serial, CHOOSE i \in DOMAIN serial : serial[i] = MsgFinished,
                Len(serial))
    ELSE <<>>

\* C6 as stated: after every fully successful run, at every verbose level,
\* the final block reports mean, min, max, range and standard deviation.
C6_AsStated ==
  (Validated /\ pc = "done" /\ AllReadsGood) =>
    /\ Written(MsgSummary)
    /\ Written(MsgDeviation)

\* C6 amended: after every fully successful run the final block reports the
\* standard deviation; it reports mean, min, max and range exactly when the
\* verbose level is 1 or more.
C6_SummaryByVerbose ==
  (Validated /\ pc = "done" /\ AllReadsGood) =>
    FinalBlockWritten =
      IF RequestedVerbose >= 1
        THEN <<MsgFinished, MsgSummary, MsgDeviation>>
        ELSE <<MsgFinished, MsgDeviation>>

\* C6 witness: a fully successful run at verbose level 0.
C6_Witness ==
  /\ pc = "done" /\ Validated /\ AllReadsGood
  /\ request.V = Arg(0)
  /\ serial = <<MsgFinished, MsgDeviation>>

(* ------------------------------------------------------------------ *)
(* C7                                                                  *)
(* ------------------------------------------------------------------ *)

\* The successful samples s1..sk, in order.
Good == SelectSeq(sample_set, LAMBDA r : ~isnan(r))

Front(q) == SubSeq(q, 1, Len(q) - 1)

\* The count/sum accumulator fed one sample at a time.
RECURSIVE Accumulator(_)
Accumulator(q) ==
  IF q = <<>>
    THEN [count |-> 0, sum |-> 0]
    ELSE LET before == Accumulator(Front(q))
         IN  [count |-> before.count + 1, sum |-> before.sum + q[Len(q)].z]

Heights(q) == {q[i].z : i \in DOMAIN q}

Smallest(S) == CHOOSE m \in S : \A z \in S : m <= z

Largest(S) == CHOOSE m \in S : \A z \in S : m >= z

\* C7: with k >= 1 successful samples, mean = (s1 + ... + sk) / k as the
\* count/sum accumulator gives it, min is the smallest and max the largest.
C7_MeanMinMax ==
  Len(Good) >= 1 =>
    LET acc == Accumulator(Good)
    IN  /\ acc.count = Len(Good)
        /\ mean.den # 0
        /\ mean.num * acc.count = acc.sum * mean.den
        /\ min = Smallest(Heights(Good))
        /\ max = Largest(Heights(Good))

\* C7 witness: all samples of a run taken, not all of the same height.
C7_Witness ==
  /\ Len(Good) = RequestedSamples
  /\ min < max
  /\ mean.den = RequestedSamples

(* ------------------------------------------------------------------ *)
(* C8                                                                  *)
(* ------------------------------------------------------------------ *)

\* The sum of a sequence of integers.
RECURSIVE Total(_)
Total(q) == IF q = <<>> THEN 0 ELSE q[1] + Total(Tail(q))

\* C8: with k >= 1 successful samples, sigma^2 * k is the sum of the squared
\* distances of all k samples to their mean (s1 + ... + sk) / k.  Both sides
\* are multiplied by k^2 to stay in the integers:
\*   sigma^2 * k * k^2 = sum of (k * s_i - (s1 + ... + sk))^2.
C8_PopulationSigma ==
  Len(Good) >= 1 =>
    LET k == Len(Good)
        S == Total([i \in DOMAIN Good |-> Good[i].z])
        D(z) == (k * z - S) * (k * z - S)
    IN  /\ sigma_sq.den # 0
        /\ sigma_sq.num * k * k * k = sigma_sq.den * Total([i \in DOMAIN Good |-> D(Good[i].z)])

\* C8 witness: several samples of different heights, sigma not zero.
C8_Witness ==
  /\ Len(Good) >= 3
  /\ sigma_sq.num > 0
  /\ Heights(Good) = SampleValues

(* ------------------------------------------------------------------ *)
(* C9                                                                  *)
(* ------------------------------------------------------------------ *)

\* The leg count by the cases of the claim.
ExpectedLegs ==
  CASE request.S /\ ~request.L.seen -> 7
    [] request.L.seen /\ request.L.val = 1 -> 2
    [] request.L.seen /\ request.L.val # 1 -> request.L.val
    [] OTHER -> 0

\* C9: past the gates the leg count in use is 7 for schizoid without L, 2 for
\* L = 1, the given L otherwise and 0 without L; it is never 1.
C9_EffectiveLegs ==
  Validated =>
    /\ n_legs = ExpectedLegs
    /\ n_legs # 1
    /\ n_legs \in {0} \cup 2..15

\* C9 witness: L = 1 with the schizoid flag, sampling with one move per sample.
C9_Witness ==
  /\ Validated
  /\ request.L = Arg(1) /\ request.S
  /\ n_legs = 2
  /\ Len(Good) >= 2
  /\ Count(calls, CallMove) = Len(sample_set)

(* ------------------------------------------------------------------ *)
(* C10                                                                 *)
(* ------------------------------------------------------------------ *)

\* The error of the first gate the request fails, in the order of the gates.
ExpectedErrors ==
  CASE VerboseOutside -> <<ErrVerbose>>
    [] ~VerboseOutside /\ SamplesOutside -> <<ErrSamples>>
    [] ~VerboseOutside /\ ~SamplesOutside /\ TargetUnreachable -> <<ErrBounds>>
    [] ~VerboseOutside /\ ~SamplesOutside /\ ~TargetUnreachable /\ LegsOutside
         -> <<ErrLegs>>
    [] OTHER -> <<>>

\* C10: never more than one error line is written, and a run that has passed
\* the homing check and ended has written exactly the error of the earliest
\* gate its request fails (verbose, sample count, target, legs) and no other.
C10_FirstFailingGate ==
  /\ Len(ErrorsReported) <= 1
  /\ (pc = "done" /\ homed) => ErrorsReported = ExpectedErrors

\* C10 witness: a request failing all four gates reports the verbose error only.
C10_Witness ==
  /\ pc = "done" /\ homed
  /\ VerboseOutside /\ SamplesOutside /\ TargetUnreachable /\ LegsOutside
  /\ ErrorsReported = <<ErrVerbose>>

(* ------------------------------------------------------------------ *)
(* C11                                                                 *)
(* ------------------------------------------------------------------ *)

\* A leg's angle has been incremented and wrapped, and its move is still to come.
LegAngleSet == pc \in {"correct", "move"}

\* C11 as stated: after each increment the wrapped angle lies in [0, 360),
\* 360 excluded, and is congruent to the unwrapped angle modulo 360.
C11_AsStated ==
  LegAngleSet =>
    /\ angle >= 0 /\ angle < 360
    /\ (angle - angle_unwrapped) % 360 = 0

\* C11 amended: after each increment the wrapped angle lies in the closed
\* interval [0, 360] and is congruent to the unwrapped angle modulo 360; it is
\* 360 exactly when the unwrapped angle is 360, which the loop of line 159
\* (angle > 360.0) leaves as it is.
C11_WrapClosedInterval ==
  LegAngleSet =>
    /\ angle >= 0 /\ angle <= 360
    /\ (angle - angle_unwrapped) % 360 = 0
    /\ angle = 360 <=> angle_unwrapped = 360
    /\ angle = IF angle_unwrapped = 360 THEN 360 ELSE angle_unwrapped % 360

\* C11 witness: a star leg from 216 degrees ends on 360 degrees.
C11_Witness ==
  /\ LegAngleSet
  /\ schizoid_flag /\ dir = 1
  /\ angle_unwrapped = 360 /\ angle = 360

\* A leg whose unwrapped angle was negative, and one beyond 360 degrees.
C11_WrappedBothWays ==
  LegAngleSet /\ (angle_unwrapped < 0 \/ angle_unwrapped > 360)

(* ------------------------------------------------------------------ *)
(* C12                                                                 *)
(* ------------------------------------------------------------------ *)

\* The lines a run writes while it proceeds normally, a successful run too.
ProgressLinesOfRun ==
  {MsgBanner, MsgPositioning, MsgStarting, MsgPulling, MsgGoingTo, MsgSample,
   MsgSampleStats}

\* C12: a run in which a probe read failed has, once it has ended, written a
\* line that signals the aborted probe sequence (a line that is not one of the
\* progress lines), so its output is not empty.
C12_AbortReported ==
  (pc = "done" /\ SomeReadFailed) =>
    /\ serial # <<>>
    /\ \E i \in DOMAIN serial : serial[i] \notin ProgressLinesOfRun

(* ------------------------------------------------------------------ *)
(* C13                                                                 *)
(* ------------------------------------------------------------------ *)

\* The routine is one sequential flow of control in which every call blocks
\* and returns: whenever a step is possible, a step is taken.
FairSpec == Spec /\ WF_vars(Next)

\* C13: under the assumption that every collaborator call returns, every run
\* eventually reaches Done, whatever the request, the kinematics and the probe
\* outcomes.
C13_EventuallyDone == <>(pc = "done")

\* A delta run that pulled a waypoint to the centre, had a read fail, and ended.
C13_Witness ==
  /\ pc = "done"
  /\ delta /\ Validated
  /\ Written(MsgPulling)
  /\ Count(calls, CallMove) > 0
  /\ SomeReadFailed

(* ------------------------------------------------------------------ *)
(* C14                                                                 *)
(* ------------------------------------------------------------------ *)

Abs(x) == IF x < 0 THEN -x ELSE x

\* What is left of the waypoint's distance to the centre, |X| + |Y|.
Remaining == Abs(X_current) + Abs(Y_current)

\* The largest |X| + |Y| a candidate can have: target inside the probe radius,
\* less the probe offset, plus the largest radius drawn.
RemainingAtMost ==
  2 * probe_radius + Abs(probe_offset[1]) + Abs(probe_offset[2])
    + 2 * ((probe_radius * 3333) \div 10000)

\* C14: on a delta machine the loop that scales an unreachable waypoint by 0.8
\* is only entered with the machine being a delta; each turn strictly reduces
\* |X| + |Y| (a natural number no larger than RemainingAtMost, so the number of
\* turns is bounded), the loop is left exactly when the scaled point is
\* reachable by the probe, and every entry into the loop is followed by its
\* exit to the move.
C14_PullTerminatesReachable ==
  /\ [][pc = "correct" =>
          /\ delta
          /\ ~position_is_reachable_by_probe(delta, X_current, Y_current)
          /\ Remaining <= RemainingAtMost
          /\ pc' \in {"correct", "move"}
          /\ X_current' = Scale08(X_current) /\ Y_current' = Scale08(Y_current)
          /\ Abs(X_current') + Abs(Y_current') < Remaining
          /\ (pc' = "move") <=>
                position_is_reachable_by_probe(delta, X_current', Y_current')]_vars
  /\ (pc = "correct") ~> (pc = "move" /\ delta
                          /\ position_is_reachable_by_probe(delta, X_current, Y_current))

\* A waypoint that has just been pulled into reach by the loop, which wrote
\* its line at the highest verbose level.
C14_Witness ==
  /\ pc = "move" /\ delta
  /\ position_is_reachable_by_probe(delta, X_current, Y_current)
  /\ verbose_level = 4
  /\ serial # <<>> /\ serial[Len(serial)] = MsgPulling
  /\ Remaining > 0

(* ------------------------------------------------------------------ *)
(* C15                                                                 *)
(* ------------------------------------------------------------------ *)

ProbePlaces == Places(calls, CallProbe)

\* The number of moves in the call log strictly between two places.
MovesIn(lo, hi) ==
  Cardinality({i \in Places(calls, CallMove) : lo < i /\ i < hi})

MovesPerIteration == IF ExpectedLegs > 0 THEN ExpectedLegs - 1 ELSE 0

\* C15: no move precedes the deployment probe; between two consecutive probe
\* reads there are exactly (effective legs - 1) moves, none when the effective
\* legs are 0; the moves after the last read so far never exceed that number,
\* they are all issued when the next read is due, and there is none once a
\* read has failed or the sample loop has been left.
C15_MovesPerIteration ==
  /\ ProbePlaces = {} => Count(calls, CallMove) = 0
  /\ \A p \in ProbePlaces :
       LET earlier == {q \in ProbePlaces : q < p}
       IN  IF earlier = {}
             THEN MovesIn(0, p) = 0
             ELSE MovesIn(Largest(earlier), p) = MovesPerIteration
  /\ ProbePlaces # {} =>
       LET pending == MovesIn(LastProbePlace, Len(calls) + 1)
       IN  /\ pending <= MovesPerIteration
           /\ pc = "probe" => pending = MovesPerIteration
           /\ pc \in {"finalize", "done"} => pending = 0
           /\ SomeReadFailed => pending = 0

\* A schizoid run (7 legs) that took all its samples: 6 moves before each.
C15_Witness ==
  /\ pc = "done" /\ Validated
  /\ ExpectedLegs = 7
  /\ AllReadsGood
  /\ Count(calls, CallMove) = 6 * RequestedSamples
  /\ Count(calls, CallProbe) = 1 + RequestedSamples

\* A run without legs that took all its samples and never moved.
C15_NoLegsNoMoves ==
  /\ pc = "done" /\ Validated /\ ExpectedLegs = 0 /\ AllReadsGood
  /\ Count(calls, CallMove) = 0

(* ------------------------------------------------------------------ *)
(* C16                                                                 *)
(* ------------------------------------------------------------------ *)

\* A corrected waypoint: on the bed of a Cartesian machine, reachable by the
\* probe of a delta.
Corrected(x, y) ==
  IF delta
    THEN position_is_reachable_by_probe(TRUE, x, y)
    ELSE /\ X_MIN_BED <= x /\ x <= X_MAX_BED
         /\ Y_MIN_BED <= y /\ y <= Y_MAX_BED

\* The candidate of lines 164-165 for the current angle and radius.
Candidate ==
  <<probe_location[1] - probe_offset[1] + Scaled(radius, Cos1000(angle)),
    probe_location[2] - probe_offset[2] + Scaled(radius, Sin1000(angle))>>

\* C16: the waypoint about to be handed to the blocking move is corrected, and
\* so is the position the carriage has been commanded to whenever the last
\* call issued is a move.
C16_WaypointCorrected ==
  /\ pc = "move" => Corrected(X_current, Y_current)
  /\ (calls # <<>> /\ calls[Len(calls)] = CallMove) =>
       Corrected(current_position[1], current_position[2])

\* A Cartesian candidate left of the bed that is about to be commanded at the
\* bed's edge.
C16_Witness ==
  /\ pc = "move" /\ ~delta
  /\ Candidate[1] < X_MIN_BED
  /\ X_current = X_MIN_BED
  /\ Y_current = Candidate[2]

(* ------------------------------------------------------------------ *)
(* C17                                                                 *)
(* ------------------------------------------------------------------ *)

ConfiguredMode == IF request.E THEN PROBE_PT_STOW ELSE PROBE_PT_RAISE

\* C17: probe_args holds the arguments of the latest probe read. Once a read
\* has been issued it was taken at the target of the request (X and Y as
\* given, else the position at the call plus the probe offset), which the
\* routine keeps unchanged; an in-loop read (any read after the first) was
\* taken with the mode E configures and with reporting level 0.
C17_ReadsAtTarget ==
  /\ Validated => probe_location = RequestedTarget
  /\ Count(calls, CallProbe) > 0 =>
       /\ probe_args.x = RequestedTarget[1]
       /\ probe_args.y = RequestedTarget[2]
  /\ Count(calls, CallProbe) > 1 =>
       /\ probe_args.raise = ConfiguredMode
       /\ probe_args.verbose = 0

\* The third read of a run with E and the highest verbose level, taken at the
\* given target right after moves carried the carriage elsewhere.
C17_Witness ==
  /\ Count(calls, CallProbe) = 3
  /\ calls[Len(calls)] = CallProbe /\ calls[Len(calls) - 1] = CallMove
  /\ request.E /\ RequestedVerbose = 4
  /\ request.XY[1].seen
  /\ probe_args = [x |-> RequestedTarget[1], y |-> RequestedTarget[2],
                   raise |-> PROBE_PT_STOW, verbose |-> 0]

(* ------------------------------------------------------------------ *)
(* C18                                                                 *)
(* ------------------------------------------------------------------ *)

\* A step that takes an in-loop read: sample_set grows by the value read.
ReadTaken == Len(sample_set') = Len(sample_set) + 1

LatestRead == sample_set'[Len(sample_set')]

\* C18: a step that takes a failed in-loop read leaves mean, sigma, min, max
\* and the number of accumulated samples as they were; once a read has failed
\* none of them, nor the sample set, changes again; the number of accumulated
\* samples is the number of successful in-loop reads, and a step changes it
\* only by adding one, which it does exactly when it takes a successful read.
C18_FailureKeepsSnapshot ==
  [][/\ (ReadTaken /\ isnan(LatestRead)) => UNCHANGED <<stats, n>>
     /\ SomeReadFailed => UNCHANGED <<stats, n, sample_set>>
     /\ n = Len(Good)
     /\ n' \in {n, n + 1}
     /\ n' = n + 1 <=> (ReadTaken /\ ~isnan(LatestRead))]_vars

\* A run that ended after two different heights were accumulated and the
\* third in-loop read failed: the statistics are those of the two.
C18_Witness ==
  /\ pc = "done"
  /\ Len(sample_set) = 3 /\ isnan(sample_set[3])
  /\ n = 2
  /\ min = Smallest(Heights(Good)) /\ max = Largest(Heights(Good))
  /\ min # max
  /\ sigma_sq # Zero

(* ------------------------------------------------------------------ *)
(* C19                                                                 *)
(* ------------------------------------------------------------------ *)

\* The deployment probe is the only read issued so far.
DeploymentProbeLatest == Count(calls, CallProbe) = 1

\* The highest verbose level a request may ask for (line 56).
MaxVerbose == 4

\* C19 as stated: the deployment probe is invoked with the maximum reporting
\* detail whatever verbose level the request gives.
C19_AsStated ==
  DeploymentProbeLatest => probe_args.verbose = MaxVerbose

\* C19 amended: the deployment probe is invoked with the verbose level of the
\* request (1 when V is absent), so with the maximum only when the request
\* asks for it; its position is the target and its mode the one E configures.
C19_DeploymentProbeVerbose ==
  DeploymentProbeLatest =>
    /\ probe_args.verbose = RequestedVerbose
    /\ probe_args.verbose = MaxVerbose <=> (request.V.seen /\ request.V.val = MaxVerbose)
    /\ probe_args.raise = ConfiguredMode
    /\ <<probe_args.x, probe_args.y>> = RequestedTarget

\* A deployment probe of a V0 request, invoked with level 0.
C19_Witness ==
  /\ DeploymentProbeLatest
  /\ request.V.seen /\ request.V.val = 0
  /\ probe_args.verbose = 0

(* ------------------------------------------------------------------ *)
(* C20                                                                 *)
(* ------------------------------------------------------------------ *)

\* C20: with the axes not homed the routine goes from its start straight to
\* its end and passes no gate: no error line for a parameter and no other line
\* of the routine is written, no call (move, probe read, stow, leveling,
\* position report) is issued, the leveling flag and the carriage position
\* are as on entry, and no parameter has been taken from the request.
C20_UnhomedReturnsAtOnce ==
  ~homed =>
    /\ pc \in {"start", "done"}
    /\ ErrorsReported = <<>>
    /\ serial = <<>>
    /\ calls = <<>>
    /\ \A c \in MechanicalCalls : Count(calls, c) = 0
    /\ leveling_active = leveling_on_entry
    /\ current_position = HomePosition(delta)
    /\ n_samples = 0 /\ n_legs = 0 /\ probe_location = <<0, 0>>
    /\ probe_args = NoProbe

\* An unhomed machine on which a request that violates the verbose, the
\* sample-count and the legs constraint has returned.
C20_Witness ==
  /\ ~homed /\ pc = "done"
  /\ VerboseOutside /\ SamplesOutside /\ LegsOutside
  /\ serial = <<>> /\ calls = <<>>

====
